---- MODULE Spec2Model ----
(***************************************************************************)
(* A model of the Firstbeat -> Smartabase synchronisation:                 *)
(*   src/firstbeat_api.py   the fetch script (roster, listing, detail,     *)
(*                          session records, upload step)                  *)
(*   src/teamworks_api.py   upload_dataframe and its helpers               *)
(*                                                                         *)
(* Strings the code takes apart or puts together (names, composite ids)    *)
(* are sequences of tokens; " " is the whitespace token and <<>> is "".    *)
(* One action is one HTTP attempt together with the code that runs up to   *)
(* the next HTTP attempt.                                                  *)
(***************************************************************************)
EXTENDS Integers, Sequences, FiniteSets, TLC

(* ------------------------------------------------------------------ *)
(* Bounds of the model                                                 *)
(* ------------------------------------------------------------------ *)
\* the longest input dataframe
MaxRows == 3
\* entries per page of a paginated destination response
PageSize == 2
\* teamworks_api.py:311 sets user_batch_size = 25; the model chunks with a
\* smaller size so that batches of several ids and of one id both occur
user_batch_size == 2
\* the largest max_retries a call of test_endpoint on its own is given
MaxRetries == 7

(* ------------------------------------------------------------------ *)
(* Program constants                                                   *)
(* ------------------------------------------------------------------ *)
max_attempts == 3
\* test_endpoint's max_retries: the default, and what the listing and the
\* detail request pass
default_max_retries == 5
listing_max_retries == 8
detail_max_retries == 8

VARIABLES
  \* ---- the caller's arguments and the destination (environment) ----
  run,              \* 1: first call of upload_dataframe, 2: the same call again
  verbose,          \* upload_dataframe's verbose argument
  df0,              \* the dataframe passed in: [columns, rows]
  directory,        \* the destination's users, in the order it pages them
  store,            \* the destination's events of the form, oldest first
  \* ---- upload_dataframe and the helpers it calls ----
  pc,               \* "start", "usersynchronise", "synchronise",
                    \* "synchronise_single", "eventimport", "done"
  user_map,         \* get_usss_user_map: (first, last) -> userId
  df,               \* the rows of df after the filter last applied
  cursor,           \* payload["cursor"] of the paginated call in progress (0: none)
  attempt,          \* _post_with_retries: the attempt about to be made
  unique_user_ids,  \* get_existing_measurement_ids
  bstart,           \* index in unique_user_ids where the current batch starts
  sidx,             \* index in the batch of the user queried alone (0: no fallback)
  batch_ids,        \* _fetch_existing_measurement_ids_for_user_batch: existing_ids
  existing_ids,     \* get_existing_measurement_ids: existing_ids
  rowIdx,           \* the row of df the upload loop is at
  success_count,
  result,           \* how the call ended: [kind, value, raised_in]
  log,              \* what was printed, in order
  \* ---- history of the run ----
  posts,            \* the eventimport payloads POSTed, in order
  answers,          \* the outcome of each of them
  stored1,          \* the composite ids the first run stored
  dedup_ret,        \* TRUE once get_existing_measurement_ids has returned
  fb_queried,       \* user ids queried alone in the fallback in progress
  fb_complete,      \* [batch, queried] of every fallback that ran to its end
  fb_found,         \* ids held for the users whose single query succeeded
  fb_failed,        \* user ids whose single query failed
  batches_tried,    \* batches for which a synchronise call was started
  sync4xx,          \* "none", or where a synchronise request met a 4xx
  batch_failed,     \* [batch, error, status, partial, before] of every batch call
                    \* that raised: where the batch starts, "RequestException" or
                    \* "HTTPError" and its status, the ids of the pages the call
                    \* had read, and existing_ids at that time
  sent,             \* the destination endpoints a request was sent to
  order,            \* the endpoints in the order the requests were sent,
                    \* requests to the same endpoint in a row written once
  pages,            \* [call, sent, next, items] of every page the paginated call in
                    \* progress (or the last one) received: the cursor the
                    \* request carried (0: none), the nextCursor of the response
  \* ---- the fetch script firstbeat_api.py ----
  fpc,              \* "roster", "listing", "detail", "upload", "done", "aborted"
  json_error_is_request_exception,
                    \* whether the installed requests raises its own JSONDecodeError
                    \* (a RequestException) from Response.json()
  te_attempt,       \* test_endpoint: the attempt about to be made
  te_all_err,       \* every attempt of the call in progress met a connection error
  athletes,         \* the roster as the script read it
  aidx,             \* the athlete the listing loop is at
  measurements,     \* [athlete, ids] per athlete with measurements, in insertion order
  didx,             \* the entry of measurements the detail loop is at
  midx,             \* the measurement of that entry the detail loop is at
  rmssd,            \* the session records built
  abort,            \* [step, error] of the exception that ended the script
  flog,             \* what the script printed, in order
  roster_failed,    \* the roster request ended with a non-200 response or an error
  listing_failed,   \* athletes whose listing request failed after retries
  detail_done,      \* [athlete, id, ok] of every detail fetch that ended
  listing_sent,     \* a listing request was sent
  detail_sent,      \* a detail request was sent
  uploaded,         \* upload_dataframe was called (the destination is contacted)
  \* ---- one call of an HTTP helper on its own ----
  call_method,      \* "GET": test_endpoint, "POST": _post_with_retries
  call_max,         \* max_retries (GET), max_attempts (POST) of the call
  call_retry_after, \* the Retry-After header the server puts on its 429 responses
  call_attempt,     \* the attempt about to be made
  call_outcomes,    \* the outcome of every request sent, in order
  call_sleeps,      \* the seconds of every time.sleep, in order
  call_result       \* [kind, response]: "running", "returned" or "raised"

envVars  == <<run, verbose, df0, directory>>
progVars == <<pc, user_map, df, cursor, attempt, unique_user_ids, bstart, sidx,
              batch_ids, existing_ids, rowIdx, success_count, result, log>>
histVars == <<posts, answers, stored1, dedup_ret, fb_queried, fb_complete,
              fb_found, fb_failed, batches_tried, sync4xx, batch_failed, sent, order,
              pages>>
uploadVars == <<envVars, store, progVars, histVars>>
fetchVars == <<fpc, json_error_is_request_exception, te_attempt, te_all_err, athletes,
               aidx, measurements, didx, midx, rmssd, abort, flog, roster_failed,
               listing_failed, detail_done, listing_sent, detail_sent, uploaded>>
helperVars == <<call_method, call_max, call_retry_after, call_attempt, call_outcomes,
                call_sleeps, call_result>>
vars == <<uploadVars, fetchVars, helperVars>>

(* ------------------------------------------------------------------ *)
(* Helpers                                                             *)
(* ------------------------------------------------------------------ *)
Range(s) == {s[i] : i \in 1..Len(s)}

Min2(a, b) == IF a < b THEN a ELSE b

\* str.strip(): leading and trailing whitespace removed
RECURSIVE LStrip(_)
LStrip(s) == IF s # <<>> /\ Head(s) = " " THEN LStrip(Tail(s)) ELSE s

RECURSIVE RStrip(_)
RStrip(s) == IF s # <<>> /\ s[Len(s)] = " " THEN RStrip(SubSeq(s, 1, Len(s) - 1)) ELSE s

Strip(s) == RStrip(LStrip(s))

\* str.split(): the maximal runs of non-whitespace tokens
RECURSIVE SplitAcc(_, _, _)
SplitAcc(s, word, acc) ==
  IF s = <<>> THEN (IF word = <<>> THEN acc ELSE Append(acc, word))
  ELSE IF Head(s) = " "
       THEN SplitAcc(Tail(s), <<>>, IF word = <<>> THEN acc ELSE Append(acc, word))
       ELSE SplitAcc(Tail(s), Append(word, Head(s)), acc)

Split(s) == SplitAcc(s, <<>>, <<>>)

\* str() of an integer 0..9: its decimal digit
IntStr(n) == <<(<<"0", "1", "2", "3", "4", "5", "6", "7", "8", "9">>)[n + 1]>>

\* dict.get(key, default)
Get(row, key, default) == IF key \in DOMAIN row THEN row[key] ELSE default

\* list(dict.fromkeys(xs)): first occurrences, in order
RECURSIVE UniqueAcc(_, _)
UniqueAcc(xs, acc) ==
  IF xs = <<>> THEN acc
  ELSE UniqueAcc(Tail(xs), IF Head(xs) \in Range(acc) THEN acc ELSE Append(acc, Head(xs)))

Unique(xs) == UniqueAcc(xs, <<>>)

(* ------------------------------------------------------------------ *)
(* The source side: roster, sessions (firstbeat_api.py)                *)
(* ------------------------------------------------------------------ *)
\* the athletes of the team as the roster request lists them
Roster ==
  << [athleteId |-> 1, firstName |-> <<"Ann">>, lastName |-> <<"Lee">>],
     [athleteId |-> 2, firstName |-> <<"Bob">>, lastName |-> <<"Ray">>],
     [athleteId |-> 3, firstName |-> <<"Cy">>,  lastName |-> <<"Orr">>],
     [athleteId |-> 4, firstName |-> <<"Dee">>, lastName |-> <<"Fox">>] >>

\* athlete_names[athleteId] = f"{firstName} {lastName}"
athlete_names(list) ==
  [id \in {list[i].athleteId : i \in 1..Len(list)} |->
     LET j == CHOOSE j \in 1..Len(list) :
                /\ list[j].athleteId = id
                /\ \A k \in (j + 1)..Len(list) : list[k].athleteId # id
     IN  list[j].firstName \o <<" ">> \o list[j].lastName]

\* a time of the source, as datetime.fromisoformat reads it
DateTime(y, mo, d, h, mi, sec) ==
  [year |-> y, month |-> mo, day |-> d, hour |-> h, minute |-> mi, second |-> sec]

\* the detail response of a measurement
DetailOf(measurement_id) ==
  IF measurement_id = "M1"
    THEN [measurementType |-> <<"Test">>,
          startTime |-> DateTime(2024, 3, 5, 9, 5, 10),
          endTime   |-> DateTime(2024, 3, 5, 9, 50, 40)]
    ELSE [measurementType |-> <<"Training">>,
          startTime |-> DateTime(2024, 3, 5, 23, 30, 0),
          endTime   |-> DateTime(2024, 3, 6, 0, 15, 20)]

\* a number as decimal digits, zero-padded to the width
RECURSIVE Digits(_, _)
Digits(n, width) ==
  IF width = 0 THEN <<>> ELSE Digits(n \div 10, width - 1) \o IntStr(n % 10)

\* str.lstrip("0")
RECURSIVE LStripZero(_)
LStripZero(s) == IF s # <<>> /\ Head(s) = "0" THEN LStripZero(Tail(s)) ELSE s

\* strftime("%d/%m/%Y")
FormatDate(t) ==
  Digits(t.day, 2) \o <<"/">> \o Digits(t.month, 2) \o <<"/">> \o Digits(t.year, 4)

\* strftime("%I:%M %p").lstrip("0")
FormatTime(t) ==
  LET h12 == IF t.hour % 12 = 0 THEN 12 ELSE t.hour % 12
  IN  LStripZero(Digits(h12, 2) \o <<":">> \o Digits(t.minute, 2) \o <<" ">>
                 \o <<IF t.hour < 12 THEN "AM" ELSE "PM">>)

\* f'{measurement_id}-{athlete}'
CompositeId(measurement_id, athlete) ==
  <<measurement_id>> \o <<"-">> \o IntStr(athlete)

\* the session record built from one detail response
Session(names, athlete, measurement_id, resp) ==
  ("start_date" :> FormatDate(resp.startTime)) @@
  ("start_time" :> FormatTime(resp.startTime)) @@
  ("end_date" :> FormatDate(resp.endTime)) @@
  ("end_time" :> FormatTime(resp.endTime)) @@
  ("Date" :> FormatDate(resp.endTime)) @@
  ("Time" :> FormatTime(resp.endTime)) @@
  ("First Name" :> Split(names[athlete])[1]) @@
  ("Last Name" :> Split(names[athlete])[2]) @@
  ("ID" :> CompositeId(measurement_id, athlete)) @@
  ("Session Type" :> resp.measurementType)

(* ------------------------------------------------------------------ *)
(* The destination (environment of teamworks_api.py)                   *)
(* ------------------------------------------------------------------ *)
\* an HTTP response with a status, or no response (connection error, timeout)
Resp(s) == [exc |-> FALSE, status |-> s]
NetErr  == [exc |-> TRUE, status |-> 0]
Statuses == {200, 401, 429, 503}
Outcomes == {Resp(s) : s \in Statuses} \cup {NetErr}

\* the outcomes of an eventimport POST: answered 200, answered otherwise, no answer
EventOutcomes == {Resp(200), Resp(401), Resp(503), NetErr}

\* one page of a paginated list: the entries from the cursor on, and the
\* cursor of the next page (0: the response carries no nextCursor)
PageOf(items, cur) ==
  LET first == IF cur = 0 THEN 1 ELSE cur
      last  == Min2(first + PageSize - 1, Len(items))
  IN  [items |-> SubSeq(items, first, last),
       nextCursor |-> IF last < Len(items) THEN last + 1 ELSE 0]

\* the events of the form the destination holds for the given users
EventsFor(user_ids) ==
  SelectSeq(store, LAMBDA e : e.userId \in Range(user_ids))

(* ------------------------------------------------------------------ *)
(* teamworks_api.py                                                    *)
(* ------------------------------------------------------------------ *)
pair_keys ==
  << "ID", "Duration", "Session Type", "ACWR", "RMSSD", "HR Avg", "HR Peak",
     "TRIMP", "Movement Load", "Zone 1 (min)", "Zone 2 (min)", "Zone 3 (min)",
     "Zone 4 (min)", "Zone 5 (min)" >>

\* str(value) of a value that is a string already
Str(v) == v

_build_event_payload(row) ==
  [userId |-> row["user_id"],
   rows |-> << [row |-> 0,
                pairs |-> [i \in 1..Len(pair_keys) |->
                             [key |-> pair_keys[i],
                              value |-> Str(Get(row, pair_keys[i], <<>>))]]] >>]

required_columns == {"First Name", "Last Name", "ID"}

\* user_map.get(...) of a name that is no key; df["user_id"].notna() drops it
None == 0 - 1

\* a POST helper that treats a 4xx like a 5xx
_post_with_retries_Retry4xx(att, o) ==
  IF ~o.exc /\ o.status < 400
    THEN [do |-> "return", status |-> o.status, sleep |-> 0]
  ELSE IF att < max_attempts
    THEN [do |-> "retry", status |-> o.status, sleep |-> 2 ^ (att - 1)]
  ELSE [do |-> IF o.exc THEN "RequestException" ELSE "HTTPError",
        status |-> o.status, sleep |-> 0]

\* one attempt of _post_with_retries: what the attempt's outcome leads to
\*   "return": the response is returned         "retry": sleep, next attempt
\*   "HTTPError": raised with the status        "RequestException": raised
_post_with_retries(att, o) ==
  IF ~o.exc /\ o.status < 400
    THEN [do |-> "return", status |-> o.status, sleep |-> 0]
  ELSE IF ~o.exc
    THEN IF o.status < 500
           THEN [do |-> "HTTPError", status |-> o.status, sleep |-> 0]
         ELSE IF att < max_attempts
           THEN [do |-> "retry", status |-> o.status, sleep |-> 2 ^ (att - 1)]
         ELSE [do |-> "HTTPError", status |-> o.status, sleep |-> 0]
  ELSE IF att < max_attempts
    THEN [do |-> "retry", status |-> 0, sleep |-> 2 ^ (att - 1)]
  ELSE [do |-> "RequestException", status |-> 0, sleep |-> 0]

\* the loop over data["users"] of get_usss_user_map: last writer wins
RECURSIVE AddUsers(_, _)
AddUsers(um, users) ==
  IF users = <<>> THEN um
  ELSE LET u   == Head(users)
           key == <<Strip(u.firstName), Strip(u.lastName)>>
       IN  AddUsers([k \in DOMAIN um \cup {key} |->
                       IF k = key THEN u.userId ELSE um[k]],
                    Tail(users))

\* df["user_id"] = df.apply(lambda r: user_map.get((first, last)))
WithUserId(rows, um) ==
  [i \in 1..Len(rows) |->
     LET key == <<rows[i]["First Name"], rows[i]["Last Name"]>>
     IN  rows[i] @@ ("user_id" :> IF key \in DOMAIN um THEN um[key] ELSE None)]

\* df = df[df["user_id"].notna()]
NotNa(rows) == SelectSeq(rows, LAMBDA r : r["user_id"] # None)

\* a dedup filter that filters nothing
NotExisting_NoFilter(rows, eids) == rows

\* df = df[~df["ID"].isin(existing_ids)]
NotExisting(rows, eids) == SelectSeq(rows, LAMBDA r : r["ID"] \notin eids)

\* the scan of data["export"]["events"] for the pairs whose key is "ID"
ExtractIds(events) ==
  {ev.rows[r].pairs[p].value :
     <<ev, r, p>> \in {<<e, r, p>> \in Range(events) \X (1..1) \X (1..Len(pair_keys)) :
                         r \in 1..Len(e.rows) /\ e.rows[r].pairs[p].key = "ID"}}

\* existing_ids.update(...)
MergeIds(eids, ids) == eids \cup ids

\* the batch of _chunk_list(unique_user_ids, user_batch_size) starting at i
Chunk(ids, i) == SubSeq(ids, i, Min2(i + user_batch_size - 1, Len(ids)))

\* a fallback that is started for a batch of one id as well
FallbackWanted_AnySize(status, batch) == status >= 500

\* line 329: the fallback is taken for a 5xx on a batch of several users
FallbackWanted(status, batch) == status >= 500 /\ Len(batch) > 1

\* a count of every answered row
CountSuccess_AnyAnswer(count, status) == count + 1

\* line 142: a 200 counts as a success
CountSuccess(count, status) == IF status = 200 THEN count + 1 ELSE count

\* the messages printed
MsgNoData    == "No data rows provided. Nothing to upload."
MsgNoMatch   == "No rows matched Smartabase users. Nothing to upload."
MsgAllExist  == "All rows already exist in Smartabase. Nothing to upload."
MsgUploaded  == "Uploaded Measurement"
MsgFailed    == "FAILED"
MsgSummary   == "Successfully uploaded"
MsgFallback  == "WARNING: Smartabase sync returned 5xx for a user batch. Retrying one user at a time."
MsgSingle    == "WARNING: Could not dedupe existing events for user_id"
MsgBatch     == "WARNING: Could not fetch existing event IDs for a user batch"

\* print(msg) under `if verbose:`
PrintIf(lg, flag, msg) == IF flag THEN Append(lg, msg) ELSE lg

(* ------------------------------------------------------------------ *)
(* upload_dataframe as a state machine                                 *)
(* ------------------------------------------------------------------ *)
\* the program variables as one record, and their assignment
cur ==
  [pc |-> pc, user_map |-> user_map, df |-> df, cursor |-> cursor,
   attempt |-> attempt, unique_user_ids |-> unique_user_ids, bstart |-> bstart,
   sidx |-> sidx, batch_ids |-> batch_ids, existing_ids |-> existing_ids,
   rowIdx |-> rowIdx, success_count |-> success_count, result |-> result,
   log |-> log]

Set(p) ==
  /\ pc' = p.pc
  /\ user_map' = p.user_map
  /\ df' = p.df
  /\ cursor' = p.cursor
  /\ attempt' = p.attempt
  /\ unique_user_ids' = p.unique_user_ids
  /\ bstart' = p.bstart
  /\ sidx' = p.sidx
  /\ batch_ids' = p.batch_ids
  /\ existing_ids' = p.existing_ids
  /\ rowIdx' = p.rowIdx
  /\ success_count' = p.success_count
  /\ result' = p.result
  /\ log' = p.log

Running == [kind |-> "running", value |-> 0, raised_in |-> ""]

\* return v
Returned(p, v) ==
  [p EXCEPT !.pc = "done",
            !.result = [kind |-> "returned", value |-> v, raised_in |-> ""]]

\* an exception leaves upload_dataframe from the named step
Raised(p, where) ==
  [p EXCEPT !.pc = "done",
            !.result = [kind |-> "raised", value |-> 0, raised_in |-> where]]

\* the state of the program variables when upload_dataframe is entered
Entry ==
  [pc |-> "start", user_map |-> <<>>, df |-> <<>>, cursor |-> 0, attempt |-> 1,
   unique_user_ids |-> <<>>, bstart |-> 1, sidx |-> 0, batch_ids |-> {},
   existing_ids |-> {}, rowIdx |-> 1, success_count |-> 0, result |-> Running,
   log |-> <<>>]

\* a column check that looks at the columns only when there are rows
MissingColumns_OnlyWithRows(frame) ==
  frame.rows # <<>> /\ ~(required_columns \subseteq frame.columns)

\* line 86: not all(col in df.columns for col in required_columns)
MissingColumns(frame) == ~(required_columns \subseteq frame.columns)

\* lines 84-98: the column check, the empty check, the call of get_usss_user_map
UploadStart ==
  /\ pc = "start"
  /\ IF MissingColumns(df0)
       THEN Set(Raised(cur, "columns"))
     ELSE IF df0.rows = <<>>
       THEN Set(Returned([cur EXCEPT !.log = PrintIf(log, verbose, MsgNoData)], 0))
     ELSE Set([cur EXCEPT !.pc = "usersynchronise", !.df = df0.rows,
                          !.user_map = <<>>, !.cursor = 0, !.attempt = 1])
  /\ UNCHANGED <<envVars, store, histVars>>
  /\ UNCHANGED <<fetchVars, helperVars>>

\* an upload that goes from the user map straight to the POSTs
AfterUserMap_NoDedup(p, um) ==
  LET mapped == NotNa(WithUserId(p.df, um))
  IN  IF mapped = <<>>
        THEN Returned([p EXCEPT !.user_map = um, !.df = mapped,
                                !.log = PrintIf(p.log, verbose, MsgNoMatch)], 0)
        ELSE [p EXCEPT !.user_map = um, !.df = mapped, !.pc = "eventimport",
                       !.rowIdx = 1, !.success_count = 0, !.cursor = 0,
                       !.attempt = 1]

\* lines 100-116 after get_usss_user_map returned um: the user ids, the filter,
\* and the entry of get_existing_measurement_ids (lines 301-311)
AfterUserMap(p, um) ==
  LET mapped == NotNa(WithUserId(p.df, um))
      ids    == Unique([i \in 1..Len(mapped) |-> mapped[i]["user_id"]])
  IN  IF mapped = <<>>
        THEN Returned([p EXCEPT !.user_map = um, !.df = mapped,
                                !.log = PrintIf(p.log, verbose, MsgNoMatch)], 0)
        ELSE [p EXCEPT !.user_map = um, !.df = mapped, !.pc = "synchronise",
                       !.unique_user_ids = ids, !.bstart = 1, !.sidx = 0,
                       !.existing_ids = {}, !.batch_ids = {}, !.cursor = 0,
                       !.attempt = 1]

\* the record of the endpoints asked, after a request to this one
Asked(ord, endpoint) ==
  IF ord # <<>> /\ ord[Len(ord)] = endpoint THEN ord ELSE Append(ord, endpoint)

\* the record of a page received: a request without cursor starts a new
\* paginated call
Received(pgs, call, cursor_sent, page) ==
  LET entry == [call |-> call, sent |-> cursor_sent, next |-> page.nextCursor,
                items |-> page.items]
  IN  IF cursor_sent = 0 THEN <<entry>> ELSE Append(pgs, entry)

\* a loop that asks for the page after the one the server named
payload_cursor_Skip(page) == page.nextCursor + 1

\* lines 244-248 and 289-293: payload["cursor"] = cursor, the page's nextCursor
payload_cursor(page) == page.nextCursor

\* lines 228-250: one attempt of the usersynchronise request of the page at hand
UserSyncAttempt ==
  /\ pc = "usersynchronise"
  /\ \E o \in Outcomes :
       LET st   == _post_with_retries(attempt, o)
           page == PageOf(directory, cursor)
       IN  /\ IF st.do = "retry"
                THEN Set([cur EXCEPT !.attempt = attempt + 1])
              ELSE IF st.do = "return"
                THEN LET um == AddUsers(user_map, page.items)
                     IN  IF page.nextCursor # 0
                           THEN Set([cur EXCEPT !.user_map = um, !.attempt = 1,
                                                !.cursor = payload_cursor(page)])
                           ELSE Set(AfterUserMap(cur, um))
              ELSE Set(Raised(cur, "usersynchronise"))
           /\ pages' = IF st.do = "return" THEN Received(pages, pc, cursor, page) ELSE pages
  /\ sent' = sent \cup {"usersynchronise"}
  /\ order' = Asked(order, "usersynchronise")
  /\ UNCHANGED <<envVars, store, posts, answers, stored1, dedup_ret, fb_queried,
                 fb_complete, fb_found, fb_failed, batches_tried, sync4xx,
                 batch_failed>>
  /\ UNCHANGED <<fetchVars, helperVars>>

\* lines 117-129 after get_existing_measurement_ids returned: the dedup filter
AfterDedup(p) ==
  LET rest == NotExisting(p.df, p.existing_ids)
  IN  IF rest = <<>>
        THEN Returned([p EXCEPT !.df = rest,
                                !.log = PrintIf(p.log, verbose, MsgAllExist)], 0)
        ELSE [p EXCEPT !.df = rest, !.pc = "eventimport", !.rowIdx = 1,
                       !.success_count = 0]

\* the end of one iteration of the loop over the batches (line 313): the next
\* batch, or `return existing_ids` (line 355)
FinishBatch(p, eids, lg) ==
  LET q == [p EXCEPT !.existing_ids = eids, !.log = lg, !.sidx = 0,
                     !.batch_ids = {}, !.cursor = 0, !.attempt = 1]
  IN  IF p.bstart + user_batch_size <= Len(p.unique_user_ids)
        THEN [q EXCEPT !.pc = "synchronise", !.bstart = p.bstart + user_batch_size]
        ELSE AfterDedup(q)

\* the end of one iteration of the loop over the users of a batch (line 334)
FinishSingle(p, eids, lg) ==
  IF p.sidx < Len(Chunk(p.unique_user_ids, p.bstart))
    THEN [p EXCEPT !.existing_ids = eids, !.log = lg, !.sidx = p.sidx + 1,
                   !.batch_ids = {}, !.cursor = 0, !.attempt = 1]
    ELSE FinishBatch(p, eids, lg)

\* lines 325-350: the batch call raised an HTTPError with this status
BatchHTTPError(p, status) ==
  IF FallbackWanted(status, Chunk(p.unique_user_ids, p.bstart))
    THEN [p EXCEPT !.pc = "synchronise_single", !.sidx = 1, !.batch_ids = {},
                   !.cursor = 0, !.attempt = 1, !.log = Append(p.log, MsgFallback)]
    ELSE Raised(p, "synchronise")

\* a dedup that lets the connection error of a batch out
BatchRequestException_Raises(p) == Raised(p, "synchronise")

\* lines 351-353: the batch call raised another RequestException
BatchRequestException(p) == FinishBatch(p, p.existing_ids, Append(p.log, MsgBatch))

\* a fallback that lets the error of one user out
SingleRequestException_Raises(p) == Raised(p, "synchronise")

\* lines 346-347: the call for one user raised a RequestException (an HTTPError is one)
SingleRequestException(p) == FinishSingle(p, p.existing_ids, Append(p.log, MsgSingle))

Is4xx(o) == ~o.exc /\ o.status >= 400 /\ o.status < 500

\* lines 313-324 with 257-295: one attempt of the synchronise request of a batch
SyncBatchAttempt ==
  /\ pc = "synchronise"
  /\ \E o \in Outcomes :
       LET batch == Chunk(unique_user_ids, bstart)
           st    == _post_with_retries(attempt, o)
           page  == PageOf(EventsFor(batch), cursor)
           ids   == batch_ids \cup ExtractIds(page.items)
           new   == IF st.do = "retry" THEN [cur EXCEPT !.attempt = attempt + 1]
                    ELSE IF st.do = "return"
                      THEN IF page.nextCursor # 0
                             THEN [cur EXCEPT !.batch_ids = ids, !.attempt = 1,
                                              !.cursor = payload_cursor(page)]
                             ELSE FinishBatch(cur, MergeIds(existing_ids, ids), log)
                    ELSE IF st.do = "HTTPError" THEN BatchHTTPError(cur, st.status)
                    ELSE BatchRequestException(cur)
       IN  /\ Set(new)
           /\ batches_tried' = batches_tried \cup {bstart}
           /\ sync4xx' = IF Is4xx(o) THEN "batch" ELSE sync4xx
           /\ dedup_ret' = (new.pc = "eventimport" \/ new.result.kind = "returned")
           /\ fb_queried' = IF new.pc = "synchronise_single" THEN <<>> ELSE fb_queried
           /\ batch_failed' =
                IF st.do \in {"HTTPError", "RequestException"}
                  THEN batch_failed \cup {[batch |-> bstart, error |-> st.do,
                                           status |-> st.status, partial |-> batch_ids,
                                           before |-> existing_ids]}
                  ELSE batch_failed
           /\ pages' = IF st.do = "return" THEN Received(pages, pc, cursor, page) ELSE pages
  /\ sent' = sent \cup {"synchronise"}
  /\ order' = Asked(order, "synchronise")
  /\ UNCHANGED <<envVars, store, posts, answers, stored1, fb_complete, fb_found,
                 fb_failed>>
  /\ UNCHANGED <<fetchVars, helperVars>>

\* lines 334-347 with 257-295: one attempt of the synchronise request of one user
SyncSingleAttempt ==
  /\ pc = "synchronise_single"
  /\ \E o \in Outcomes :
       LET batch == Chunk(unique_user_ids, bstart)
           user  == batch[sidx]
           st    == _post_with_retries(attempt, o)
           page  == PageOf(EventsFor(<<user>>), cursor)
           ids   == batch_ids \cup ExtractIds(page.items)
           ended == st.do # "retry" /\ ~(st.do = "return" /\ page.nextCursor # 0)
           new   == IF st.do = "retry" THEN [cur EXCEPT !.attempt = attempt + 1]
                    ELSE IF st.do = "return"
                      THEN IF page.nextCursor # 0
                             THEN [cur EXCEPT !.batch_ids = ids, !.attempt = 1,
                                              !.cursor = payload_cursor(page)]
                             ELSE FinishSingle(cur, MergeIds(existing_ids, ids), log)
                    ELSE SingleRequestException(cur)
           asked == IF attempt = 1 /\ cursor = 0 THEN Append(fb_queried, user)
                    ELSE fb_queried
       IN  /\ Set(new)
           /\ fb_queried' = asked
           /\ fb_found' = IF ended /\ st.do = "return"
                            THEN fb_found \cup ExtractIds(EventsFor(<<user>>))
                            ELSE fb_found
           /\ fb_failed' = IF ended /\ st.do # "return" THEN fb_failed \cup {user}
                           ELSE fb_failed
           /\ fb_complete' = IF ended /\ new.sidx = 0 /\ new.result.kind # "raised"
                               THEN fb_complete \cup {[batch |-> batch, queried |-> asked]}
                               ELSE fb_complete
           /\ sync4xx' = IF Is4xx(o) THEN "single" ELSE sync4xx
           /\ dedup_ret' = (new.pc = "eventimport" \/ new.result.kind = "returned")
           /\ pages' = IF st.do = "return" THEN Received(pages, pc, cursor, page) ELSE pages
  /\ sent' = sent \cup {"synchronise"}
  /\ order' = Asked(order, "synchronise")
  /\ UNCHANGED <<envVars, store, posts, answers, stored1, batches_tried,
                 batch_failed>>
  /\ UNCHANGED <<fetchVars, helperVars>>

\* lines 131-152: the eventimport POST of one row and what follows it
EventImportPost ==
  /\ pc = "eventimport"
  /\ \E o \in EventOutcomes :
       LET payload == _build_event_payload(df[rowIdx])
           cnt     == CountSuccess(success_count, o.status)
           lg      == IF o.status = 200 THEN PrintIf(log, verbose, MsgUploaded)
                      ELSE Append(log, MsgFailed)
       IN  /\ posts' = Append(posts, payload)
           /\ answers' = Append(answers, o)
           /\ store' = IF ~o.exc /\ o.status = 200 THEN Append(store, payload) ELSE store
           /\ IF o.exc THEN Set(Raised(cur, "eventimport"))
              ELSE IF rowIdx < Len(df)
                THEN Set([cur EXCEPT !.rowIdx = rowIdx + 1, !.success_count = cnt,
                                     !.log = lg])
              ELSE Set(Returned([cur EXCEPT !.success_count = cnt,
                                            !.log = PrintIf(lg, verbose, MsgSummary)],
                                cnt))
  /\ sent' = sent \cup {"eventimport"}
  /\ order' = Asked(order, "eventimport")
  /\ UNCHANGED <<envVars, stored1, dedup_ret, fb_queried, fb_complete, fb_found,
                 fb_failed, batches_tried, sync4xx, batch_failed, pages>>
  /\ UNCHANGED <<fetchVars, helperVars>>

\* the "ID" pair of a payload
IdOf(payload) == payload.rows[1].pairs[1].value

\* the caller uploads the same record set again
SecondRun ==
  /\ pc = "done"
  /\ run = 1
  /\ run' = 2
  /\ Set(Entry)
  /\ stored1' = {IdOf(posts[i]) : i \in {j \in 1..Len(posts) :
                                           ~answers[j].exc /\ answers[j].status = 200}}
  /\ posts' = <<>>
  /\ answers' = <<>>
  /\ dedup_ret' = FALSE
  /\ fb_queried' = <<>>
  /\ fb_complete' = {}
  /\ fb_found' = {}
  /\ fb_failed' = {}
  /\ batches_tried' = {}
  /\ sync4xx' = "none"
  /\ batch_failed' = {}
  /\ sent' = {}
  /\ order' = <<>>
  /\ pages' = <<>>
  /\ UNCHANGED <<verbose, df0, directory, store>>
  /\ UNCHANGED <<fetchVars, helperVars>>

(* ------------------------------------------------------------------ *)
(* The inputs                                                          *)
(* ------------------------------------------------------------------ *)
\* the (athlete, measurement) pairs a dataframe's rows are built from
Candidates == << <<1, "M1">>, <<1, "M2">>, <<2, "M1">>, <<3, "M1">>, <<4, "M1">> >>

CandidateRow(i) ==
  Session(athlete_names(Roster), Candidates[i][1], Candidates[i][2],
          DetailOf(Candidates[i][2]))

\* the columns of pd.DataFrame(rmssd): the keys of a session record
AllColumns == DOMAIN CandidateRow(1)

\* the dataframes: up to MaxRows sessions in fetch order, all columns or one missing
InputFrames ==
  LET picks == UNION {{s \in [1..n -> 1..Len(Candidates)] :
                         \A i \in 1..(n - 1) : s[i] <= s[i + 1]} : n \in 0..MaxRows}
  IN  {[columns |-> AllColumns,
        rows |-> [i \in 1..Len(s) |-> CandidateRow(s[i])]] : s \in picks}
      \cup
      {[columns |-> AllColumns \ {c},
        rows |-> [i \in 1..n |-> [k \in AllColumns \ {c} |-> CandidateRow(i)[k]]]] :
         c \in required_columns, n \in 0..2}

\* the destination's user directory
Directory ==
  << [firstName |-> <<"Ann">>, lastName |-> <<"Lee", " ">>, userId |-> 8],
     [firstName |-> <<"Bob">>, lastName |-> <<"Ray">>, userId |-> 7],
     [firstName |-> <<" ", "Ann">>, lastName |-> <<"Lee">>, userId |-> 9],
     [firstName |-> <<"Cy">>, lastName |-> <<"Orr">>, userId |-> 5] >>

\* the event the destination holds for a candidate row of a user
StoredEvent(i, user_id) == _build_event_payload(CandidateRow(i) @@ ("user_id" :> user_id))

InitialStores ==
  { <<>>,
    <<StoredEvent(1, 9)>>,
    <<StoredEvent(1, 9), StoredEvent(1, 9), StoredEvent(2, 9), StoredEvent(3, 7),
      StoredEvent(4, 5)>> }

\* upload_dataframe is about to be called with the dataframe frame
UploadEntry(frames, stores) ==
  /\ run = 1
  /\ verbose \in BOOLEAN
  /\ df0 \in frames
  /\ directory = Directory
  /\ store \in stores
  /\ pc = Entry.pc
  /\ user_map = Entry.user_map
  /\ df = Entry.df
  /\ cursor = Entry.cursor
  /\ attempt = Entry.attempt
  /\ unique_user_ids = Entry.unique_user_ids
  /\ bstart = Entry.bstart
  /\ sidx = Entry.sidx
  /\ batch_ids = Entry.batch_ids
  /\ existing_ids = Entry.existing_ids
  /\ rowIdx = Entry.rowIdx
  /\ success_count = Entry.success_count
  /\ result = Entry.result
  /\ log = Entry.log
  /\ posts = <<>>
  /\ answers = <<>>
  /\ stored1 = {}
  /\ dedup_ret = FALSE
  /\ fb_queried = <<>>
  /\ fb_complete = {}
  /\ fb_found = {}
  /\ fb_failed = {}
  /\ batches_tried = {}
  /\ sync4xx = "none"
  /\ batch_failed = {}
  /\ sent = {}
  /\ order = <<>>
  /\ pages = <<>>

NoAbort == [step |-> "", error |-> ""]

\* the script is at its first request, the athlete list (line 172)
FetchEntry ==
  /\ fpc = "roster"
  /\ te_attempt = 1
  /\ te_all_err = TRUE
  /\ athletes = <<>>
  /\ aidx = 1
  /\ measurements = <<>>
  /\ didx = 1
  /\ midx = 1
  /\ rmssd = <<>>
  /\ abort = NoAbort
  /\ flog = <<>>
  /\ roster_failed = FALSE
  /\ listing_failed = {}
  /\ detail_done = <<>>
  /\ listing_sent = FALSE
  /\ detail_sent = FALSE
  /\ uploaded = FALSE

\* no helper call on its own is under way
NoCall ==
  /\ call_method = "POST"
  /\ call_max = max_attempts
  /\ call_retry_after = <<>>
  /\ call_attempt = 1
  /\ call_outcomes = <<>>
  /\ call_sleeps = <<>>
  /\ call_result = [kind |-> "none", response |-> NetErr]

Init ==
  /\ UploadEntry(InputFrames, InitialStores)
  /\ FetchEntry
  /\ NoCall
  /\ json_error_is_request_exception = TRUE

Next ==
  \/ UploadStart
  \/ UserSyncAttempt
  \/ SyncBatchAttempt
  \/ SyncSingleAttempt
  \/ EventImportPost

\* one call of upload_dataframe
Spec == Init /\ [][Next]_vars

NextTwice ==
  \/ Next
  \/ SecondRun

\* the call, and then the same call again
SpecTwice == Init /\ [][NextTwice]_vars


(* ------------------------------------------------------------------ *)
(* firstbeat_api.py: the HTTP helper                                    *)
(* ------------------------------------------------------------------ *)
\* int(text): an optional sign and decimal digits, whitespace around them
\* ignored; anything else is a ValueError
DigitValue(c) ==
  CASE c = "0" -> 0 [] c = "1" -> 1 [] c = "2" -> 2 [] c = "3" -> 3 [] c = "4" -> 4
    [] c = "5" -> 5 [] c = "6" -> 6 [] c = "7" -> 7 [] c = "8" -> 8 [] c = "9" -> 9
    [] OTHER -> 0 - 1

RECURSIVE DigitsValue(_, _)
DigitsValue(s, acc) ==
  IF s = <<>> THEN acc ELSE DigitsValue(Tail(s), 10 * acc + DigitValue(Head(s)))

ParseInt(text) ==
  LET t      == Strip(text)
      signed == t # <<>> /\ Head(t) \in {"-", "+"}
      digits == IF signed THEN Tail(t) ELSE t
      ok     == digits # <<>> /\ \A i \in 1..Len(digits) : DigitValue(digits[i]) >= 0
  IN  [ok |-> ok,
       value |-> IF ~ok THEN 0
                 ELSE IF signed /\ Head(t) = "-" THEN 0 - DigitsValue(digits, 0)
                 ELSE DigitsValue(digits, 0)]

\* a helper that never looks at the Retry-After header
_retry_after_seconds_Ignored(response, fallback_seconds) == fallback_seconds

\* lines 69-76
_retry_after_seconds(response, fallback_seconds) ==
  IF "Retry-After" \notin DOMAIN response.headers \/ response.headers["Retry-After"] = <<>>
    THEN fallback_seconds
  ELSE LET n == ParseInt(response.headers["Retry-After"])
       IN  IF n.ok THEN (IF n.value > 1 THEN n.value ELSE 1) ELSE fallback_seconds

\* what test_endpoint does with a response (lines 99-123)
OnResponse(att, max_retries, o, wait_202) ==
  IF o.status = 202
    THEN IF att = max_retries THEN [do |-> "return", wait |-> 0]
         ELSE [do |-> "retry", wait |-> wait_202]
  ELSE IF o.status = 429
    THEN IF att = max_retries THEN [do |-> "return", wait |-> 0]
         ELSE [do |-> "retry", wait |-> _retry_after_seconds(o, Min2(2 ^ att, 60))]
  ELSE IF o.status >= 500
    THEN IF att = max_retries THEN [do |-> "return", wait |-> 0]
         ELSE [do |-> "retry", wait |-> Min2(2 ^ att, 30)]
  ELSE [do |-> "return", wait |-> 0]

\* a GET helper whose backoff after a connection error has no cap
test_endpoint_NoCap(att, max_retries, o) ==
  IF o.exc
    THEN IF att = max_retries THEN [do |-> "raise", wait |-> 0]
         ELSE [do |-> "retry", wait |-> 2 ^ att]
  ELSE OnResponse(att, max_retries, o, 5)

\* a GET helper that backs off exponentially while the analysis is in progress
test_endpoint_Backoff202(att, max_retries, o) ==
  IF o.exc
    THEN IF att = max_retries THEN [do |-> "raise", wait |-> 0]
         ELSE [do |-> "retry", wait |-> Min2(2 ^ att, 30)]
  ELSE OnResponse(att, max_retries, o, Min2(2 ^ att, 30))

\* one attempt of test_endpoint: what the attempt's outcome leads to
\*   "return": the response is returned     "retry": sleep `wait` seconds, go on
\*   "raise": the RequestException of the attempt is re-raised
test_endpoint(att, max_retries, o) ==
  IF o.exc
    THEN IF att = max_retries THEN [do |-> "raise", wait |-> 0]
         ELSE [do |-> "retry", wait |-> Min2(2 ^ att, 30)]
  ELSE OnResponse(att, max_retries, o, 5)

\* Response.raise_for_status() raises an HTTPError
RaisesForStatus(o) == o.status >= 400 /\ o.status < 600

(* ------------------------------------------------------------------ *)
(* The source API (environment of firstbeat_api.py)                    *)
(* ------------------------------------------------------------------ *)
\* a response of the source: its status, its headers, and what its body is:
\*   "data" the JSON the endpoint documents, "json" another JSON object,
\*   "not_json" a body Response.json() cannot decode
GetResp(s, h, b) == [exc |-> FALSE, status |-> s, headers |-> h, body |-> b]
GetErr == [exc |-> TRUE, status |-> 0, headers |-> <<>>, body |-> "not_json"]

GetOutcomes ==
  {GetResp(200, <<>>, "data"), GetErr}
  \cup {GetResp(st, <<>>, b) : st \in {202, 404, 429, 503}, b \in {"json", "not_json"}}
  \cup {GetResp(429, "Retry-After" :> <<"2">>, "json")}

\* the measurement ids the source lists for an athlete
ServerMeasurements(athlete_id) ==
  LET idx == {i \in 1..Len(Candidates) : Candidates[i][1] = athlete_id}
  IN  [k \in 1..Cardinality(idx) |->
         Candidates[CHOOSE i \in idx : Cardinality({j \in idx : j < i}) = k - 1][2]]

(* ------------------------------------------------------------------ *)
(* firstbeat_api.py: the script                                        *)
(* ------------------------------------------------------------------ *)
MsgWarnListing == "WARNING: Failed to fetch measurements"
MsgWarnDetail  == "WARNING: Skipping measurement"
MsgNoUpload    == "WARNING: No measurement data found, no upload."
MsgUploading   == "Uploading Firstbeat data to Smartabase"

Abort(step, error) ==
  /\ fpc' = "aborted"
  /\ abort' = [step |-> step, error |-> error]

\* lines 172-180: one attempt of the athlete list request, and the roster read
\* from the response test_endpoint returns
RosterAttempt ==
  /\ fpc = "roster"
  /\ \E o \in GetOutcomes :
       LET st   == test_endpoint(te_attempt, default_max_retries, o)
           list == IF o.body = "data" THEN Roster ELSE <<>>
       IN  /\ te_all_err' = (st.do = "retry" /\ te_all_err /\ o.exc)
           /\ te_attempt' = IF st.do = "retry" THEN te_attempt + 1 ELSE 1
           /\ roster_failed' = (st.do = "raise" \/ (st.do = "return" /\ o.status # 200))
           /\ IF st.do = "retry" THEN UNCHANGED <<fpc, abort, athletes>>
              ELSE IF st.do = "raise"
                THEN Abort("roster", "RequestException") /\ UNCHANGED athletes
              ELSE IF o.body = "not_json"
                THEN Abort("roster", "JSONDecodeError") /\ UNCHANGED athletes
              ELSE /\ athletes' = list
                   /\ fpc' = IF list = <<>> THEN "upload" ELSE "listing"
                   /\ UNCHANGED abort
  /\ UNCHANGED <<json_error_is_request_exception, aidx, measurements, didx, midx,
                 rmssd, flog, listing_failed, detail_done, listing_sent, detail_sent,
                 uploaded>>
  /\ UNCHANGED <<uploadVars, helperVars>>

\* lines 129-153: what get_measurement_ids makes of the response returned
ListingIds(athlete_id, o) ==
  IF RaisesForStatus(o) THEN <<>>
  ELSE IF o.body = "data" THEN ServerMeasurements(athlete_id)
  ELSE <<>>

\* lines 189-196 with 129-153: one attempt of the listing request of an athlete
ListingAttempt ==
  /\ fpc = "listing"
  /\ \E o \in GetOutcomes :
       LET st  == test_endpoint(te_attempt, listing_max_retries, o)
           id  == athletes[aidx].athleteId
           ids == ListingIds(id, o)
           ms  == IF ids # <<>> THEN Append(measurements, [athlete |-> id, ids |-> ids])
                  ELSE measurements
       IN  /\ listing_sent' = TRUE
           /\ te_all_err' = IF st.do = "retry" THEN (te_all_err /\ o.exc) ELSE TRUE
           /\ te_attempt' = IF st.do = "retry" THEN te_attempt + 1 ELSE 1
           /\ listing_failed' =
                IF (st.do = "raise" /\ te_all_err) \/ (st.do = "return" /\ RaisesForStatus(o))
                  THEN listing_failed \cup {id} ELSE listing_failed
           /\ IF st.do = "retry" THEN UNCHANGED <<fpc, abort, aidx, measurements, flog>>
              ELSE IF st.do = "raise"
                THEN Abort("listing", "RequestException")
                     /\ UNCHANGED <<aidx, measurements, flog>>
              ELSE IF ~RaisesForStatus(o) /\ o.body = "not_json"
                THEN Abort("listing", "JSONDecodeError")
                     /\ UNCHANGED <<aidx, measurements, flog>>
              ELSE /\ measurements' = ms
                   /\ flog' = IF RaisesForStatus(o) THEN Append(flog, MsgWarnListing)
                              ELSE flog
                   /\ aidx' = IF aidx < Len(athletes) THEN aidx + 1 ELSE aidx
                   /\ fpc' = IF aidx < Len(athletes) THEN "listing"
                             ELSE IF ms = <<>> THEN "upload" ELSE "detail"
                   /\ UNCHANGED abort
  /\ UNCHANGED <<json_error_is_request_exception, athletes, didx, midx, rmssd,
                 roster_failed, detail_done, detail_sent, uploaded>>
  /\ UNCHANGED <<uploadVars, helperVars>>

\* lines 203 and 201: the next measurement, the next athlete, or the upload step
NextDetail ==
  IF midx < Len(measurements[didx].ids)
    THEN fpc' = "detail" /\ midx' = midx + 1 /\ didx' = didx
  ELSE IF didx < Len(measurements)
    THEN fpc' = "detail" /\ midx' = 1 /\ didx' = didx + 1
  ELSE fpc' = "upload" /\ UNCHANGED <<midx, didx>>

\* lines 206-208: the measurement is skipped with a warning
SkipMeasurement ==
  /\ flog' = Append(flog, MsgWarnDetail)
  /\ rmssd' = rmssd
  /\ NextDetail
  /\ UNCHANGED abort

\* lines 201-254 with 155-167: one attempt of the detail request of a measurement
DetailAttempt ==
  /\ fpc = "detail"
  /\ \E o \in GetOutcomes :
       LET st      == test_endpoint(te_attempt, detail_max_retries, o)
           athlete == measurements[didx].athlete
           id      == measurements[didx].ids[midx]
           ok      == st.do = "return" /\ ~RaisesForStatus(o) /\ o.body = "data"
       IN  /\ detail_sent' = TRUE
           /\ te_all_err' = IF st.do = "retry" THEN (te_all_err /\ o.exc) ELSE TRUE
           /\ te_attempt' = IF st.do = "retry" THEN te_attempt + 1 ELSE 1
           /\ detail_done' = IF st.do = "retry" THEN detail_done
                             ELSE Append(detail_done,
                                         [athlete |-> athlete, id |-> id, ok |-> ok])
           /\ IF st.do = "retry" THEN UNCHANGED <<fpc, abort, didx, midx, rmssd, flog>>
              ELSE IF st.do = "raise" \/ RaisesForStatus(o)
                THEN SkipMeasurement
              ELSE IF o.body = "not_json"
                THEN IF json_error_is_request_exception THEN SkipMeasurement
                     ELSE Abort("detail", "JSONDecodeError")
                          /\ UNCHANGED <<didx, midx, rmssd, flog>>
              ELSE IF o.body = "json"
                THEN Abort("detail", "KeyError")
                     /\ UNCHANGED <<didx, midx, rmssd, flog>>
              ELSE /\ rmssd' = Append(rmssd, Session(athlete_names(athletes), athlete, id,
                                                     DetailOf(id)))
                   /\ NextDetail
                   /\ UNCHANGED <<abort, flog>>
  /\ UNCHANGED <<json_error_is_request_exception, athletes, aidx, measurements,
                 roster_failed, listing_failed, listing_sent, uploaded>>
  /\ UNCHANGED <<uploadVars, helperVars>>

\* lines 256-265: the dataframe is handed to upload_dataframe, or there is none
UploadStep ==
  /\ fpc = "upload"
  /\ fpc' = "done"
  /\ uploaded' = (Len(rmssd) # 0)
  /\ flog' = Append(flog, IF Len(rmssd) = 0 THEN MsgNoUpload ELSE MsgUploading)
  /\ UNCHANGED <<json_error_is_request_exception, te_attempt, te_all_err, athletes,
                 aidx, measurements, didx, midx, rmssd, abort, roster_failed,
                 listing_failed, detail_done, listing_sent, detail_sent>>
  /\ UNCHANGED <<uploadVars, helperVars>>

\* the frame upload_dataframe gets when the script is what runs
NoFrame == [columns |-> AllColumns, rows |-> <<>>]

InitFetch ==
  /\ UploadEntry({NoFrame}, {<<>>})
  /\ FetchEntry
  /\ NoCall
  /\ json_error_is_request_exception \in BOOLEAN

NextFetch ==
  \/ RosterAttempt
  \/ ListingAttempt
  \/ DetailAttempt
  \/ UploadStep

\* the fetch script up to its call of upload_dataframe
SpecFetch == InitFetch /\ [][NextFetch]_vars

(* ------------------------------------------------------------------ *)
(* One call of an HTTP helper on its own                               *)
(* ------------------------------------------------------------------ *)
\* the headers of a 429 response: no Retry-After, or one with this text
RetryAfterTexts == {<<>>, <<"2">>, <<"1", "5">>, <<"0">>, <<"-", "3">>, <<"a", "b", "c">>}
RetryAfterHeaders == {<<>>} \cup {"Retry-After" :> t : t \in RetryAfterTexts}

\* what a request of the call can meet: no answer, or a response
CallOutcomes(headers) ==
  {GetErr, GetResp(429, headers, "json")}
  \cup {GetResp(st, <<>>, "json") : st \in {200, 202, 404, 503}}

CallEnded(kind, o) == [kind |-> kind, response |-> o]

\* lines 87-123 of firstbeat_api.py: one pass of test_endpoint's loop
CallGet ==
  /\ call_method = "GET"
  /\ call_result.kind = "running"
  /\ \E o \in CallOutcomes(call_retry_after) :
       LET st == test_endpoint(call_attempt, call_max, o)
       IN  /\ call_outcomes' = Append(call_outcomes, o)
           /\ call_sleeps' = IF st.do = "retry" THEN Append(call_sleeps, st.wait)
                             ELSE call_sleeps
           /\ call_attempt' = IF st.do = "retry" THEN call_attempt + 1 ELSE call_attempt
           /\ call_result' = IF st.do = "retry" THEN call_result
                             ELSE IF st.do = "return" THEN CallEnded("returned", o)
                             ELSE CallEnded("raised", o)
  /\ UNCHANGED <<call_method, call_max, call_retry_after>>
  /\ UNCHANGED <<uploadVars, fetchVars>>

\* lines 180-206 of teamworks_api.py: one pass of _post_with_retries's loop
CallPost ==
  /\ call_method = "POST"
  /\ call_result.kind = "running"
  /\ \E o \in CallOutcomes(call_retry_after) :
       LET st == _post_with_retries(call_attempt, o)
       IN  /\ call_outcomes' = Append(call_outcomes, o)
           /\ call_sleeps' = IF st.do = "retry" THEN Append(call_sleeps, st.sleep)
                             ELSE call_sleeps
           /\ call_attempt' = IF st.do = "retry" THEN call_attempt + 1 ELSE call_attempt
           /\ call_result' = IF st.do = "retry" THEN call_result
                             ELSE IF st.do = "return" THEN CallEnded("returned", o)
                             ELSE CallEnded("raised", o)
  /\ UNCHANGED <<call_method, call_max, call_retry_after>>
  /\ UNCHANGED <<uploadVars, fetchVars>>

\* a helper is called: test_endpoint with its default max_retries or a larger
\* one, or _post_with_retries with its max_attempts
InitHelper ==
  /\ UploadEntry({NoFrame}, {<<>>})
  /\ FetchEntry
  /\ json_error_is_request_exception = TRUE
  /\ verbose = TRUE
  /\ call_method \in {"GET", "POST"}
  /\ call_max \in IF call_method = "GET" THEN {default_max_retries, MaxRetries}
                  ELSE {max_attempts}
  /\ call_retry_after \in RetryAfterHeaders
  /\ call_attempt = 1
  /\ call_outcomes = <<>>
  /\ call_sleeps = <<>>
  /\ call_result = [kind |-> "running", response |-> NetErr]

NextHelper ==
  \/ CallGet
  \/ CallPost

SpecHelper == InitHelper /\ [][NextHelper]_vars

(* ------------------------------------------------------------------ *)
(* Properties                                                          *)
(* ------------------------------------------------------------------ *)
NameKey(r) == <<r["First Name"], r["Last Name"]>>

Answered200(i) == ~answers[i].exc /\ answers[i].status = 200

\* the input rows that have a destination user and whose ID the resolver did not return
EligibleRows ==
  SelectSeq(df0.rows,
            LAMBDA r : NameKey(r) \in DOMAIN user_map /\ r["ID"] \notin existing_ids)

PostsMatchEligible ==
  /\ Len(posts) = Len(EligibleRows)
  /\ \A i \in 1..Len(posts) :
       /\ posts[i].userId = user_map[NameKey(EligibleRows[i])]
       /\ IdOf(posts[i]) = EligibleRows[i]["ID"]
       /\ \E c \in Range(Candidates) : IdOf(posts[i]) = CompositeId(c[2], c[1])

\* C2: once the resolver has returned and the call has ended, the eventimport
\* POSTs are exactly one per input row that has a mapped user and an ID outside
\* the existing-id set, each with the mapped user id and the row's composite id.
C2_PostsExactlyEligible ==
  (pc = "done" /\ dedup_ret) => PostsMatchEligible

\* C3: no outcome of a row's eventimport POST makes upload_dataframe raise.
C3_NoRaiseInUploadLoop ==
  ~(result.kind = "raised" /\ result.raised_in = "eventimport")

\* C4: the returned value is the number of rows answered 200; a row answered
\* with another status adds nothing and leaves the loop running, so every row
\* left after mapping and dedup is posted and the count is within 0..Len(df).
C4_CountIs200Answers ==
  LET n200 == Cardinality({i \in 1..Len(answers) : Answered200(i)})
  IN  /\ success_count = n200
      /\ result.kind = "returned" =>
           /\ result.value = n200
           /\ 0 <= result.value /\ result.value <= Len(df)
           /\ answers # <<>> => Len(answers) = Len(df)
      /\ \A i \in 1..Len(answers) :
           (~answers[i].exc /\ answers[i].status # 200 /\ i < Len(df))
             => (Len(answers) > i \/ pc = "eventimport")

C4_Witness ==
  /\ result.kind = "returned"
  /\ result.value = 1
  /\ Len(answers) = 3
  /\ answers[1] = Resp(503)
  /\ answers[2] = Resp(200)
  /\ answers[3] = Resp(401)

\* the three empty paths, told by the inputs and the requests made
EmptyNoRows   == result.kind = "returned" /\ df0.rows = <<>>
EmptyNoMatch  == /\ result.kind = "returned"
                 /\ df0.rows # <<>>
                 /\ \A r \in Range(df0.rows) : NameKey(r) \notin DOMAIN user_map
EmptyAllExist == /\ result.kind = "returned"
                 /\ dedup_ret
                 /\ \A r \in Range(df0.rows) :
                      NameKey(r) \in DOMAIN user_map => r["ID"] \in existing_ids

EmptyMsgs == {MsgNoData, MsgNoMatch, MsgAllExist}

\* C5 as claimed: each empty path returns 0 without a POST and prints its own message.
C5_EmptyPathsLogged ==
  /\ EmptyNoRows => (result.value = 0 /\ posts = <<>> /\
                     Range(log) \cap EmptyMsgs = {MsgNoData})
  /\ EmptyNoMatch => (result.value = 0 /\ posts = <<>> /\
                      Range(log) \cap EmptyMsgs = {MsgNoMatch})
  /\ EmptyAllExist => (result.value = 0 /\ posts = <<>> /\
                       Range(log) \cap EmptyMsgs = {MsgAllExist})

\* C5 amended: each empty path returns 0 without a POST; with verbose set it
\* prints its own one of three different messages, without it none of them.
C5_EmptyPathsLoggedIfVerbose ==
  /\ Cardinality(EmptyMsgs) = 3
  /\ EmptyNoRows => (result.value = 0 /\ posts = <<>> /\
                     Range(log) \cap EmptyMsgs = IF verbose THEN {MsgNoData} ELSE {})
  /\ EmptyNoMatch => (result.value = 0 /\ posts = <<>> /\
                      Range(log) \cap EmptyMsgs = IF verbose THEN {MsgNoMatch} ELSE {})
  /\ EmptyAllExist => (result.value = 0 /\ posts = <<>> /\
                       Range(log) \cap EmptyMsgs = IF verbose THEN {MsgAllExist} ELSE {})

C5_Witness ==
  /\ EmptyAllExist
  /\ verbose
  /\ MsgFallback \in Range(log)
  /\ Len(df0.rows) = 3

C10_Sync4xxPropagates ==
  sync4xx # "none" => (result.kind = "raised" /\ posts = <<>>)

\* C1: the second run posts no composite id the first run stored, and a second
\* run that returns after a first run that stored every row returns 0.
C1_SecondRunPostsNothingStored ==
  run = 2 =>
    /\ \A i \in 1..Len(posts) : IdOf(posts[i]) \notin stored1
    /\ (result.kind = "returned" /\ df0.rows # <<>>
           /\ \A r \in Range(df0.rows) : r["ID"] \in stored1)
         => result.value = 0

\* ---- checks of the model itself ----
Sanity_ReturnedMatches ==
  (pc = "done" /\ dedup_ret /\ result.kind = "returned") => PostsMatchEligible

Sanity_IdempotentWhenDedupAnswers ==
  (run = 2 /\ Range(log) \cap {MsgBatch, MsgSingle} = {})
     => \A i \in 1..Len(posts) : IdOf(posts[i]) \notin stored1

Sanity_4xxBatch ==
  sync4xx = "batch" => (result.kind = "raised" /\ posts = <<>>)

\* C6: a listing request that fails after retries (connection errors on every
\* attempt, a 4xx, a 5xx or 429 on the last attempt) does not abort the run: the
\* athlete gets no measurements and the loop goes on.
C6_ListingFailureGoesOn ==
  /\ ~(fpc = "aborted" /\ abort.step = "listing" /\ abort.error = "RequestException"
         /\ athletes[aidx].athleteId \in listing_failed)
  /\ \A i \in 1..Len(measurements) : measurements[i].athlete \notin listing_failed

\* the sessions of the measurements whose detail fetch succeeded, in order
OkSessions ==
  LET ok == SelectSeq(detail_done, LAMBDA d : d.ok)
  IN  [i \in 1..Len(ok) |->
         Session(athlete_names(Roster), ok[i].athlete, ok[i].id, DetailOf(ok[i].id))]

\* C7: a detail fetch that fails after retries (connection errors, 4xx, 5xx, 429,
\* or still 202 on the last attempt) yields no record and does not stop the run;
\* the records are those of the other measurements.
C7_DetailFailureSkipsOnly ==
  /\ abort.step # "detail"
  /\ rmssd = OkSessions

\* C8: a roster request that ends with a non-200 response or an error stops the
\* run with an error, before any listing, detail or destination request.
C8_RosterFailureAborts ==
  roster_failed =>
    (fpc = "aborted" /\ ~listing_sent /\ ~detail_sent /\ ~uploaded)

Sanity_SessionsOfOk == rmssd = OkSessions

Sanity_RosterFailureQuiet == roster_failed => (~listing_sent /\ ~detail_sent /\ ~uploaded)

(* ------------------------------------------------------------------ *)
(* The column pre-check                                                *)
(* ------------------------------------------------------------------ *)
\* C11: with one of "First Name", "Last Name", "ID" missing, upload_dataframe
\* raises from the column check, with or without rows, and no request was sent
\* to any destination endpoint.
C11_MissingColumnFailsFirst ==
  ~(required_columns \subseteq df0.columns) =>
     \/ pc = "start"
     \/ /\ result.kind = "raised"
        /\ result.raised_in = "columns"
        /\ sent = {}
        /\ posts = <<>>
        /\ pages = <<>>

\* C11: a dataframe without rows and without the "ID" column was refused
C11_Witness ==
  /\ result.kind = "raised"
  /\ result.raised_in = "columns"
  /\ df0.rows = <<>>
  /\ "ID" \notin df0.columns
  /\ sent = {}

(* ------------------------------------------------------------------ *)
(* The eventimport POSTs and the retry policy                          *)
(* ------------------------------------------------------------------ *)
\* an outcome the retry policy retries: no answer, a 5xx, a 429
RetryableByPolicy(o) == o.exc \/ o.status >= 500 \/ o.status = 429

\* the answers read under the retry policy: how many rows they settle, and the
\* attempt the row at hand is at
RECURSIVE PolicyWalk(_, _, _, _)
PolicyWalk(ans, i, settled, att) ==
  IF i > Len(ans) THEN [settled |-> settled, att |-> att]
  ELSE IF RetryableByPolicy(ans[i]) /\ att < max_attempts
    THEN PolicyWalk(ans, i + 1, settled, att + 1)
  ELSE PolicyWalk(ans, i + 1, settled + 1, 1)

\* C12: the eventimport POSTs follow the retry policy: a row whose POST met a
\* connection error, a 5xx or a 429 is posted again, up to max_attempts times,
\* before the loop leaves the row; the loop is at the row the policy puts it
\* at, and the call does not end with a row in the middle of its attempts.
C12_EventImportRetried ==
  LET w == PolicyWalk(answers, 1, 0, 1)
  IN  /\ pc = "eventimport" => rowIdx = w.settled + 1
      /\ (pc = "done" /\ answers # <<>>) => w.att = 1

(* ------------------------------------------------------------------ *)
(* The retry policy of the two HTTP helpers                            *)
(* ------------------------------------------------------------------ *)
Is429(o) == ~o.exc /\ o.status = 429

\* the Retry-After header of a response as a positive integer, or 0
PositiveRetryAfter(o) ==
  IF "Retry-After" \notin DOMAIN o.headers THEN 0
  ELSE LET n == ParseInt(o.headers["Retry-After"])
       IN  IF n.ok /\ n.value > 0 THEN n.value ELSE 0

\* C13: when test_endpoint met n 429 responses in a row, each with
\* Retry-After = r (a positive integer, n below max_retries), and then a 200,
\* it slept exactly n times, r seconds each time, sent n + 1 requests and
\* returned the 200 response.
C13_RetryAfterHonoured ==
  LET n == Len(call_outcomes) - 1
  IN  ( /\ call_method = "GET"
        /\ call_outcomes # <<>>
        /\ n < call_max
        /\ ~call_outcomes[n + 1].exc /\ call_outcomes[n + 1].status = 200
        /\ \A i \in 1..n : Is429(call_outcomes[i])
                           /\ PositiveRetryAfter(call_outcomes[i]) > 0 )
      => /\ call_result = CallEnded("returned", call_outcomes[n + 1])
         /\ call_attempt = n + 1
         /\ Len(call_sleeps) = n
         /\ \A i \in 1..n : call_sleeps[i] = PositiveRetryAfter(call_outcomes[i])

\* C13: two 429 responses with Retry-After: 2 and then a 200: two sleeps of 2 s
C13_Witness ==
  /\ call_method = "GET"
  /\ call_result.kind = "returned"
  /\ Len(call_outcomes) = 3
  /\ Is429(call_outcomes[1]) /\ Is429(call_outcomes[2])
  /\ call_outcomes[3].status = 200
  /\ call_retry_after = ("Retry-After" :> <<"2">>)
  /\ call_sleeps = <<2, 2>>

\* C14: the wait after a 429 on attempt k (not the last attempt) is the
\* Retry-After value when the header is a positive integer, and min(2^k, 60)
\* otherwise: header absent, empty, not an integer, zero or negative.
C14_WaitAfter429 ==
  call_method = "GET" =>
    \A k \in 1..Len(call_sleeps) :
      Is429(call_outcomes[k]) =>
        call_sleeps[k] = IF PositiveRetryAfter(call_outcomes[k]) > 0
                           THEN PositiveRetryAfter(call_outcomes[k])
                           ELSE Min2(2 ^ k, 60)

\* the wait after a 429 as the code computes it: an integer header is honoured
\* with at least one second, also when it is zero or negative
Sanity_WaitAfter429Clamped ==
  call_method = "GET" =>
    \A k \in 1..Len(call_sleeps) :
      Is429(call_outcomes[k]) =>
        LET o == call_outcomes[k]
            n == IF "Retry-After" \in DOMAIN o.headers
                   THEN ParseInt(o.headers["Retry-After"])
                   ELSE [ok |-> FALSE, value |-> 0]
        IN  call_sleeps[k] = IF n.ok THEN (IF n.value > 1 THEN n.value ELSE 1)
                             ELSE Min2(2 ^ k, 60)

Is4xxNot429(o) == ~o.exc /\ o.status >= 400 /\ o.status < 500 /\ o.status # 429

\* C15: when the first response of a helper call is a 4xx other than 429, the
\* helper sent that one request, never slept, and the call is over:
\* test_endpoint returned the response, _post_with_retries raised its HTTPError.
C15_4xxNotRetried ==
  (call_outcomes # <<>> /\ Is4xxNot429(call_outcomes[1])) =>
     /\ Len(call_outcomes) = 1
     /\ call_sleeps = <<>>
     /\ call_method = "GET" => call_result = CallEnded("returned", call_outcomes[1])
     /\ call_method = "POST" => call_result = CallEnded("raised", call_outcomes[1])

\* C15: _post_with_retries met a 404 on its first attempt and raised
C15_Witness ==
  /\ call_method = "POST"
  /\ Len(call_outcomes) = 1
  /\ call_outcomes[1].status = 404
  /\ call_result.kind = "raised"
  /\ call_sleeps = <<>>

\* C16: _post_with_retries follows the policy of test_endpoint: after every
\* request it goes on to another attempt exactly when test_endpoint, given the
\* same attempt number, attempt limit and outcome, does; a 429 that is not on
\* the last attempt is slept on (Retry-After when a positive integer, else
\* min(2^attempt, 60)) and retried.
C16_PostPolicyIsGetPolicy ==
  (call_method = "POST" /\ call_outcomes # <<>>) =>
     LET a == Len(call_outcomes)
         o == call_outcomes[a]
     IN  /\ (call_result.kind = "running") <=>
              (test_endpoint(a, max_attempts, o).do = "retry")
         /\ (Is429(o) /\ a < max_attempts) =>
              /\ call_result.kind = "running"
              /\ Len(call_sleeps) = a
              /\ call_sleeps[a] = IF PositiveRetryAfter(o) > 0
                                    THEN PositiveRetryAfter(o)
                                    ELSE Min2(2 ^ a, 60)

\* the two helpers agree on connection errors, on 5xx and on 4xx other than 429
Sanity_PostPolicyOutside429 ==
  (call_method = "POST" /\ call_outcomes # <<>>) =>
     LET a == Len(call_outcomes)
         o == call_outcomes[a]
     IN  (o.exc \/ o.status >= 500 \/ Is4xxNot429(o) \/ o.status = 200) =>
           ((call_result.kind = "running") <=>
              (test_endpoint(a, max_attempts, o).do = "retry"))

AllErrors(outs) == \A i \in 1..Len(outs) : outs[i].exc

\* C17: a call of test_endpoint whose every attempt met a connection error
\* sent max_retries requests, slept min(2^attempt, 30) seconds after each but
\* the last, and re-raised the error of the last attempt; an error is raised
\* only then, never when the last attempt got a response.
C17_NetworkErrorsExhausted ==
  call_method = "GET" =>
     /\ AllErrors(call_outcomes) =>
          /\ call_sleeps = [a \in 1..Len(call_sleeps) |-> Min2(2 ^ a, 30)]
          /\ call_result.kind = "running" =>
               Len(call_outcomes) < call_max /\ Len(call_sleeps) = Len(call_outcomes)
          /\ call_result.kind # "running" =>
               /\ Len(call_outcomes) = call_max
               /\ Len(call_sleeps) = call_max - 1
               /\ call_result = CallEnded("raised", call_outcomes[call_max])
     /\ call_result.kind = "raised" =>
          Len(call_outcomes) = call_max /\ call_outcomes[call_max].exc
     /\ (call_outcomes # <<>> /\ ~call_outcomes[Len(call_outcomes)].exc) =>
          call_result.kind # "raised"

\* C17: every attempt of a call with the largest max_retries failed; the fifth
\* and later sleeps are the cap
C17_Witness ==
  /\ call_method = "GET"
  /\ call_max = MaxRetries
  /\ AllErrors(call_outcomes)
  /\ call_result.kind = "raised"
  /\ Len(call_sleeps) = MaxRetries - 1
  /\ call_sleeps[4] = 16
  /\ call_sleeps[5] = 30

IsRetryableStatus(o) == ~o.exc /\ (o.status = 202 \/ o.status = 429 \/ o.status >= 500)

\* C18: a call of test_endpoint whose every attempt got a 202, a 429 or a 5xx
\* sent max_retries requests, waited 5 s after each 202 and min(2^attempt, 30) s
\* after each 5xx, did not sleep after the last attempt and returned the last
\* response without raising; a response with any other status is returned at
\* once, with no further request.
C18_RetryableStatusesExhausted ==
  call_method = "GET" =>
     /\ (\A i \in 1..Len(call_outcomes) : IsRetryableStatus(call_outcomes[i])) =>
          /\ \A a \in 1..Len(call_sleeps) :
               /\ call_outcomes[a].status = 202 => call_sleeps[a] = 5
               /\ call_outcomes[a].status >= 500 => call_sleeps[a] = Min2(2 ^ a, 30)
          /\ call_result.kind = "running" =>
               Len(call_outcomes) < call_max /\ Len(call_sleeps) = Len(call_outcomes)
          /\ call_result.kind # "running" =>
               /\ Len(call_outcomes) = call_max
               /\ Len(call_sleeps) = call_max - 1
               /\ call_result = CallEnded("returned", call_outcomes[call_max])
     /\ ( /\ call_outcomes # <<>>
          /\ ~call_outcomes[Len(call_outcomes)].exc
          /\ ~IsRetryableStatus(call_outcomes[Len(call_outcomes)]) ) =>
          /\ call_result = CallEnded("returned", call_outcomes[Len(call_outcomes)])
          /\ Len(call_sleeps) = Len(call_outcomes) - 1

\* C18: a call with the largest max_retries that got 202, 429 and 503 responses
\* only and returned the last of them, a 202
C18_Witness ==
  /\ call_method = "GET"
  /\ call_max = MaxRetries
  /\ Len(call_outcomes) = MaxRetries
  /\ call_result.kind = "returned"
  /\ call_outcomes[1].status = 202 /\ call_sleeps[1] = 5
  /\ call_outcomes[2].status = 429
  /\ call_outcomes[3].status = 503 /\ call_sleeps[3] = 8
  /\ call_outcomes[5].status = 503 /\ call_sleeps[5] = 30
  /\ call_outcomes[6].status = 202 /\ call_sleeps[6] = 5
  /\ call_result.response.status = 202
  /\ Len(call_sleeps) = MaxRetries - 1

(* ------------------------------------------------------------------ *)
(* The derived duration                                                *)
(* ------------------------------------------------------------------ *)
\* the seconds from the start of the month to a time
SecondsOf(t) == ((t.day * 24 + t.hour) * 60 + t.minute) * 60 + t.second

\* (end - start) in minutes, in hundredths: round(seconds / 60, 2)
DurationMinutes(resp) ==
  ((SecondsOf(resp.endTime) - SecondsOf(resp.startTime)) * 100 + 30) \div 60

\* the value of a payload's pair with this key
PairValue(payload, key) ==
  LET pairs == payload.rows[1].pairs
  IN  pairs[CHOOSE i \in 1..Len(pairs) : pairs[i].key = key].value

\* C19: every session record carries the duration (end time - start time) in
\* minutes, and the "Duration" pair of the payload built for the record holds
\* that value and is not empty.
C19_DurationDerived ==
  LET ok == SelectSeq(detail_done, LAMBDA d : d.ok)
  IN  \A i \in 1..Len(rmssd) :
        /\ i <= Len(ok)
        /\ "Duration" \in DOMAIN rmssd[i]
        /\ rmssd[i]["Duration"] = DurationMinutes(DetailOf(ok[i].id))
        /\ PairValue(_build_event_payload(rmssd[i] @@ ("user_id" :> 1)), "Duration")
             = Str(rmssd[i]["Duration"])
        /\ PairValue(_build_event_payload(rmssd[i] @@ ("user_id" :> 1)), "Duration")
             # <<>>

\* what the code does: a record has no duration, and its payload's "Duration"
\* pair is the empty string
Sanity_DurationEmpty ==
  \A i \in 1..Len(rmssd) :
     /\ "Duration" \notin DOMAIN rmssd[i]
     /\ PairValue(_build_event_payload(rmssd[i] @@ ("user_id" :> 1)), "Duration") = <<>>
     /\ PairValue(_build_event_payload(rmssd[i] @@ ("user_id" :> 1)), "ID") = rmssd[i]["ID"]

(* ------------------------------------------------------------------ *)
(* Cursor pagination                                                   *)
(* ------------------------------------------------------------------ *)
\* the user map the pages received add up to
RECURSIVE UsersOfPages(_, _)
UsersOfPages(pgs, um) ==
  IF pgs = <<>> THEN um ELSE UsersOfPages(Tail(pgs), AddUsers(um, Head(pgs).items))

\* the ids in the events of the pages received
IdsOfPages(pgs) == UNION {ExtractIds(pgs[i].items) : i \in 1..Len(pgs)}

\* the pages the server has of a list
PagesOfList(items) ==
  IF items = <<>> THEN 1 ELSE (Len(items) + PageSize - 1) \div PageSize

\* C20: in a paginated call the first request carries no cursor and every
\* later request carries the nextCursor of the page before it; the loop ends
\* at the first page without nextCursor; every page received is in the result
\* (the user map, the id set); the loop ends: the call asks for no more
\* pages than the server's cursor chain has, each in at most max_attempts
\* requests.
C20_CursorPagination ==
  pages # <<>> =>
    LET n    == Len(pages)
        call == pages[1].call
    IN  /\ pages[1].sent = 0
        /\ attempt \in 1..max_attempts
        /\ \A i \in 1..(n - 1) :
             /\ pages[i].next # 0
             /\ pages[i + 1].sent = pages[i].next
             /\ pages[i + 1].call = call
        /\ (pc \in {"usersynchronise", "synchronise", "synchronise_single"}
            /\ cursor # 0) => (pc = call /\ cursor = pages[n].next)
        /\ (pc = call /\ pages[n].next = 0) => cursor = 0
        /\ call = "usersynchronise" =>
             /\ user_map = UsersOfPages(pages, <<>>)
             /\ n <= PagesOfList(directory)
             /\ (pc # "usersynchronise" /\ result.raised_in # "usersynchronise") =>
                  pages[n].next = 0
        /\ call # "usersynchronise" =>
             /\ (pc = call /\ cursor # 0) => batch_ids = IdsOfPages(pages)
             /\ pages[n].next = 0 => IdsOfPages(pages) \subseteq existing_ids
             /\ n <= PagesOfList(store)

\* C20: a synchronise call read three events of its batch in two pages, after
\* the user directory was read in two pages
C20_Witness ==
  /\ Len(pages) = 2
  /\ pages[1].call = "synchronise"
  /\ pages[1].sent = 0
  /\ pages[2].sent = pages[1].next
  /\ pages[2].next = 0
  /\ Len(pages[1].items) = PageSize
  /\ IdsOfPages(pages) \subseteq existing_ids
  /\ IdsOfPages(pages) # {}
  /\ Cardinality(DOMAIN user_map) = 3

(* ------------------------------------------------------------------ *)
(* The phases of upload_dataframe                                      *)
(* ------------------------------------------------------------------ *)
PhaseOrder == <<"usersynchronise", "synchronise", "eventimport">>

\* C21: the requests of a run come in phases: every usersynchronise request
\* before any synchronise request, every synchronise request (those of the
\* one-at-a-time fallback too) before the first eventimport POST; no POST is
\* sent while the user map or the existing-id set is being fetched.
C21_PhaseOrdering ==
  /\ Len(order) <= Len(PhaseOrder)
  /\ order = SubSeq(PhaseOrder, 1, Len(order))
  /\ pc = "usersynchronise" => (sent \subseteq {"usersynchronise"} /\ posts = <<>>)
  /\ pc \in {"synchronise", "synchronise_single"} => (posts = <<>> /\ ~dedup_ret)
  /\ posts # <<>> => (dedup_ret /\ {"usersynchronise", "synchronise"} \subseteq sent)

\* C21: a run whose dedup went through the one-at-a-time fallback and that then
\* sent two POSTs
C21_Witness ==
  /\ order = PhaseOrder
  /\ fb_queried # <<>>
  /\ Len(posts) = 2
  /\ dedup_ret

(* ------------------------------------------------------------------ *)
(* Batches of the dedup that fail                                      *)
(* ------------------------------------------------------------------ *)
\* where the batches of get_existing_measurement_ids start
BatchStarts ==
  {i \in 1..Len(unique_user_ids) : i % user_batch_size = 1 % user_batch_size}

\* the batch calls that ended with a connection error or timeout
NetFailed == {k \in batch_failed : k.error = "RequestException"}

\* C22: a batch whose synchronise call ended with a connection error or a
\* timeout on all attempts is skipped with a warning and without the
\* one-at-a-time fallback; the ids of the pages it had read are not in the
\* result, the ids of the other batches are; the batches after it are queried,
\* and upload_dataframe goes on to the upload step.
C22_NetFailedBatchSkipped ==
  /\ NetFailed # {} => MsgBatch \in Range(log)
  /\ Cardinality(NetFailed) =
       Cardinality({i \in 1..Len(log) : log[i] = MsgBatch})
  /\ \A k \in NetFailed :
       /\ \A f \in fb_complete : f.batch # Chunk(unique_user_ids, k.batch)
       /\ pc = "synchronise_single" => bstart # k.batch
       /\ k.before \subseteq existing_ids
       /\ (k.partial \ k.before) \cap existing_ids = {}
       /\ result.raised_in = "synchronise" => bstart > k.batch
       /\ pc \in {"synchronise", "synchronise_single"} => bstart > k.batch
       /\ k.batch + user_batch_size > Len(unique_user_ids) => dedup_ret
       /\ dedup_ret =>
            /\ batches_tried = BatchStarts
            /\ pc = "eventimport" \/ result.kind = "returned"
               \/ result.raised_in = "eventimport"

\* C22: the first of two batches was given up after a page of it had been
\* read; the ids of that page are not in the result, those of the second batch
\* are, and the upload loop has been entered
C22_Witness ==
  /\ pc = "eventimport"
  /\ Cardinality(batches_tried) = 2
  /\ existing_ids # {}
  /\ \E k \in NetFailed :
       /\ k.batch = 1
       /\ k.partial # {}
       /\ k.partial \cap existing_ids = {}

\* the batch calls of exactly one user id that ended with a 5xx
SingleBatch5xx ==
  {k \in batch_failed : /\ k.error = "HTTPError"
                        /\ k.status >= 500
                        /\ Len(Chunk(unique_user_ids, k.batch)) = 1}

\* C23: when a batch of exactly one user id fails with a 5xx after the
\* helper's retries there is no fallback: the error is raised out of
\* get_existing_measurement_ids and upload_dataframe, no later batch is queried
\* and no eventimport POST is sent in the run.
C23_SingleBatch5xxRaises ==
  \A k \in SingleBatch5xx :
     /\ result.kind = "raised"
     /\ result.raised_in = "synchronise"
     /\ pc = "done"
     /\ ~dedup_ret
     /\ bstart = k.batch
     /\ sidx = 0
     /\ \A b \in batches_tried : b <= k.batch
     /\ \A f \in fb_complete : f.batch # Chunk(unique_user_ids, k.batch)
     /\ posts = <<>>
     /\ "eventimport" \notin sent

\* C23: the second batch, of one user, met a 503 on all attempts after the
\* first batch had brought ids; the run ended without a POST
C23_Witness ==
  /\ \E k \in SingleBatch5xx : k.batch = user_batch_size + 1 /\ k.before # {}
  /\ result.kind = "raised"
  /\ posts = <<>>
  /\ Len(unique_user_ids) = user_batch_size + 1

====
